---- MODULE Spec2Model ----
(***************************************************************************)
(* Task tracker backend: the task service (services/task_service.py), its  *)
(* validation schema (dto/task_dto.py), its storage adapter                *)
(* (repositories/task_repository.py) over one MongoDB collection, and the  *)
(* routes that call it (controllers/task_controller.py).                   *)
(*                                                                         *)
(* Datetimes are instants counted in clock ticks.  The collection keeps    *)
(* BSON datetimes, whose resolution is one millisecond: TicksPerMs ticks.  *)
(* An ISO-8601 text is modelled by the instant it denotes.  An ObjectId is *)
(* modelled by a positive integer n and its string form by ToString(n).    *)
(***************************************************************************)
EXTENDS Integers, Sequences, FiniteSets, TLC

VARIABLES
    store,   \* the "tasks" collection: documents in insertion order
    now,     \* the wall clock, in ticks
    nextId,  \* the next ObjectId the driver generates
    req,     \* the last call made to the service
    resp,    \* what that call returned: [status, body]
    calls,   \* the calls made so far
    http,    \* the last request the routing layer served, and its response
    pending  \* the calls of update_task and of create_task that are between
             \* their two store calls

vars == <<store, now, nextId, req, resp, calls, http, pending>>

(***************************************************************************)
(* Bounds of the model.                                                    *)
(***************************************************************************)
MaxCalls == 3       \* calls made to the service in one behaviour
MaxTime == 3        \* the clock stops here
TicksPerMs == 2     \* clock ticks in one millisecond (BSON resolution)
MsPerHour == 1      \* milliseconds in one (scaled) hour

TicksPerHour == MsPerHour * TicksPerMs

(***************************************************************************)
(* JSON values as request.get_json() hands them over.  An object is a      *)
(* record of its members (no payload of the model has a member "json");    *)
(* any other value is tagged with its kind: null is Python's None, a       *)
(* number an int, float or bool, an array a list and a string a str, kept  *)
(* as its sequence of characters.                                          *)
(***************************************************************************)
JsonNull == [json |-> "null"]
JsonNumber == [json |-> "number"]
JsonArray(items) == [json |-> "array", items |-> items]
JsonString(chars) == [json |-> "string", chars |-> chars]

IsObject(data) == "json" \notin DOMAIN data

\* word in text, for two str: text has word as a substring.
Substring(word, text) ==
    \E i \in 1..(Len(text) - Len(word) + 1) :
        SubSeq(text, i, i + Len(word) - 1) = word

\* key in data: a member of a dict, an element of a list, a substring of a
\* str.  (None and numbers are not iterable: see TagsRaises.)
Contains(data, key, chars) ==
    IF IsObject(data) THEN key \in DOMAIN data
    ELSE IF data.json = "array" THEN \E i \in 1..Len(data.items) : data.items[i] = key
    ELSE IF data.json = "string" THEN Substring(chars, data.chars)
    ELSE FALSE

(***************************************************************************)
(* dto/task_dto.py: TaskSchema.                                            *)
(***************************************************************************)
SchemaFields ==
    <<"id", "title", "description", "priority", "status", "due_date",
      "created_at", "tags">>

DumpOnly == {"id", "created_at"}
Required == {"title", "description", "priority", "status", "due_date"}
LoadFields == {SchemaFields[i] : i \in 1..Len(SchemaFields)} \ DumpOnly

PriorityChoices == {"low", "medium", "high"}
StatusChoices == {"TODO", "IN_PROGRESS", "COMPLETED"}

\* FieldError without the OneOf validators of priority and status.
FieldErrorNoChoices(field, value) ==
    CASE field = "due_date" ->
           IF value.iso THEN <<>> ELSE <<"Not a valid datetime.">>
      [] field = "tags" ->
           IF ~value.list THEN <<"Not a valid list.">>
           ELSE IF ~value.strs THEN <<"Not a valid string.">>
           ELSE <<>>
      [] OTHER -> <<>>

\* FieldError with a minimum length of one on title and description.
FieldErrorNonEmpty(field, value) ==
    CASE field \in {"title", "description"} ->
           IF value = "" THEN <<"Shorter than minimum length 1.">> ELSE <<>>
      [] field = "priority" ->
           IF value \in PriorityChoices THEN <<>>
           ELSE <<"Must be one of: low, medium, high.">>
      [] field = "status" ->
           IF value \in StatusChoices THEN <<>>
           ELSE <<"Must be one of: TODO, IN_PROGRESS, COMPLETED.">>
      [] field = "due_date" ->
           IF value.iso THEN <<>> ELSE <<"Not a valid datetime.">>
      [] field = "tags" ->
           IF ~value.list THEN <<"Not a valid list.">>
           ELSE IF ~value.strs THEN <<"Not a valid string.">>
           ELSE <<>>

\* The reasons a field's value is refused for, none when it is valid.  The
\* values of title, description, priority and status are JSON strings; a raw
\* due_date is [iso |-> is it ISO-8601 text, t |-> the instant it denotes]; a
\* raw tags value is [list |-> is it a JSON array, strs |-> are all elements
\* strings, items |-> its elements].  (marshmallow files the reasons of a list
\* element under the element's index; the model keeps the reasons alone.)
FieldError(field, value) ==
    CASE field = "priority" ->
           IF value \in PriorityChoices THEN <<>>
           ELSE <<"Must be one of: low, medium, high.">>
      [] field = "status" ->
           IF value \in StatusChoices THEN <<>>
           ELSE <<"Must be one of: TODO, IN_PROGRESS, COMPLETED.">>
      [] field = "due_date" ->
           IF value.iso THEN <<>> ELSE <<"Not a valid datetime.">>
      [] field = "tags" ->
           IF ~value.list THEN <<"Not a valid list.">>
           ELSE IF ~value.strs THEN <<"Not a valid string.">>
           ELSE <<>>
      [] OTHER -> <<>>

\* LoadErrors with partial=True switching the fields' validators off along
\* with the required check.
LoadErrorsPartialUnchecked(data, partial) ==
    IF ~IsObject(data) THEN [_schema |-> <<"Invalid input type.">>] ELSE
    LET missing == IF partial THEN {} ELSE Required \ DOMAIN data
        unknown == DOMAIN data \ LoadFields
        invalid == IF partial THEN {}
                   ELSE {f \in DOMAIN data \cap LoadFields : FieldError(f, data[f]) # <<>>}
    IN  [f \in missing \cup unknown \cup invalid |->
            IF f \in missing THEN <<"Missing data for required field.">>
            ELSE IF f \in unknown THEN <<"Unknown field.">>
            ELSE FieldError(f, data[f])]

\* schema.load(data, partial): the field -> reasons map of a ValidationError,
\* empty when the payload validates.  Keys outside the load fields (the
\* dump-only id and created_at among them) are unknown and raise; so does a
\* payload that is no mapping.
LoadErrors(data, partial) ==
    IF ~IsObject(data) THEN [_schema |-> <<"Invalid input type.">>] ELSE
    LET missing == IF partial THEN {} ELSE Required \ DOMAIN data
        unknown == DOMAIN data \ LoadFields
        invalid == {f \in DOMAIN data \cap LoadFields : FieldError(f, data[f]) # <<>>}
    IN  [f \in missing \cup unknown \cup invalid |->
            IF f \in missing THEN <<"Missing data for required field.">>
            ELSE IF f \in unknown THEN <<"Unknown field.">>
            ELSE FieldError(f, data[f])]

\* schema.load's result for a payload that validates: due_date a datetime,
\* tags a list of strings.
Deserialize(data) ==
    [f \in DOMAIN data |->
        CASE f = "due_date" -> data[f].t
          [] f = "tags" -> data[f].items
          [] OTHER -> data[f]]

\* schema.dump(task): the schema's fields of a document handed over by the
\* repository (its id already a string); a field the document lacks is
\* left out.
Dump(task) ==
    [f \in {SchemaFields[i] : i \in 1..Len(SchemaFields)} \cap DOMAIN task |-> task[f]]

(***************************************************************************)
(* The driver and the collection (pymongo, bson).                          *)
(***************************************************************************)
\* A datetime as the collection keeps it: whole milliseconds, rounded down.
BsonDate(t) == t - (t % TicksPerMs)

\* A document's fields as encoded for the collection.
BsonDoc(fields) ==
    [f \in DOMAIN fields |->
        IF f \in {"due_date", "created_at"} THEN BsonDate(fields[f]) ELSE fields[f]]

\* Every call inserts at most one document, so these are all the ObjectIds
\* a behaviour can see, and one more that is never generated.
ObjectIds == 1..(MaxCalls + 1)

\* str(ObjectId) and ObjectId(str): a string that is no ObjectId raises InvalidId.
OidStr(oid) == ToString(oid)
WellFormed(task_id) == \E oid \in ObjectIds : OidStr(oid) = task_id
ObjectId(task_id) == CHOOSE oid \in ObjectIds : OidStr(oid) = task_id

\* The position of the document with this _id, 0 when there is none.
Find(coll, oid) ==
    IF \E i \in 1..Len(coll) : coll[i]._id = oid
    THEN CHOOSE i \in 1..Len(coll) : coll[i]._id = oid
    ELSE 0

\* task["id"] = str(task["_id"]); del task["_id"]
Expose(doc) ==
    [f \in (DOMAIN doc \ {"_id"}) \cup {"id"} |->
        IF f = "id" THEN OidStr(doc._id) ELSE doc[f]]

\* {"$set": update_data} applied to one document.
SetFields(doc, update_data) ==
    [f \in DOMAIN doc \cup DOMAIN update_data |->
        IF f \in DOMAIN update_data THEN update_data[f] ELSE doc[f]]

\* An optional document: <<>> is Python's None, <<doc>> a document.
None == <<>>
Some(doc) == <<doc>>

\* RepoCreate without the read-back: the task returned is the one handed in,
\* with the inserted _id.
RepoCreateNoReadBack(coll, oid, task_data) ==
    LET doc == [f \in DOMAIN task_data \cup {"_id"} |->
                   IF f = "_id" THEN oid ELSE task_data[f]]
    IN  [coll |-> Append(coll, BsonDoc(doc)), task |-> Expose(doc)]

\* RepoCreate with the read-back done without its _id criterion: find_one()
\* gives the first document of the collection.
RepoCreateReadsFirst(coll, oid, task_data) ==
    LET doc == BsonDoc([f \in DOMAIN task_data \cup {"_id"} |->
                            IF f = "_id" THEN oid ELSE task_data[f]])
        after == Append(coll, doc)
    IN  [coll |-> after, task |-> Expose(after[1])]

\* TaskRepository.create: insert_one, then find_one by the inserted _id.
\* The new collection and the document read back.
RepoCreate(coll, oid, task_data) ==
    LET doc == BsonDoc([f \in DOMAIN task_data \cup {"_id"} |->
                            IF f = "_id" THEN oid ELSE task_data[f]])
        after == Append(coll, doc)
    IN  [coll |-> after, task |-> Expose(after[Find(after, oid)])]

\* TaskRepository.get_by_id: any exception (InvalidId among them) gives None.
RepoGetById(coll, task_id) ==
    IF ~WellFormed(task_id) THEN None
    ELSE LET i == Find(coll, ObjectId(task_id))
         IN  IF i = 0 THEN None ELSE Some(Expose(coll[i]))

\* RepoUpdate deciding on matched_count instead of modified_count.
RepoUpdateMatched(coll, task_id, update_data) ==
    IF ~WellFormed(task_id) THEN [coll |-> coll, task |-> None]
    ELSE LET i == Find(coll, ObjectId(task_id))
         IN  IF i = 0 THEN [coll |-> coll, task |-> None]
             ELSE LET doc == SetFields(coll[i], BsonDoc(update_data))
                      after == [coll EXCEPT ![i] = doc]
                  IN  [coll |-> after, task |-> RepoGetById(after, task_id)]

\* RepoUpdate with the _id criterion lost: the $set reaches every document.
RepoUpdateEveryDocument(coll, task_id, update_data) ==
    IF ~WellFormed(task_id) THEN [coll |-> coll, task |-> None]
    ELSE LET i == Find(coll, ObjectId(task_id))
         IN  IF i = 0 THEN [coll |-> coll, task |-> None]
             ELSE LET after == [j \in 1..Len(coll) |->
                                   SetFields(coll[j], BsonDoc(update_data))]
                      modified_count == IF after = coll THEN 0 ELSE 1
                  IN  [coll |-> after,
                       task |-> IF modified_count > 0
                                THEN RepoGetById(after, task_id)
                                ELSE None]

\* TaskRepository.update: update_one with $set, then get_by_id when the
\* driver reports modified_count > 0.
RepoUpdate(coll, task_id, update_data) ==
    IF ~WellFormed(task_id) THEN [coll |-> coll, task |-> None]
    ELSE LET i == Find(coll, ObjectId(task_id))
         IN  IF i = 0 THEN [coll |-> coll, task |-> None]
             ELSE LET doc == SetFields(coll[i], BsonDoc(update_data))
                      after == [coll EXCEPT ![i] = doc]
                      modified_count == IF doc = coll[i] THEN 0 ELSE 1
                  IN  [coll |-> after,
                       task |-> IF modified_count > 0
                                THEN RepoGetById(after, task_id)
                                ELSE None]

\* RepoDelete with the _id criterion lost: delete_one({}) removes the first
\* document of the collection.
RepoDeleteFirst(coll, task_id) ==
    IF ~WellFormed(task_id) THEN [coll |-> coll, success |-> FALSE]
    ELSE IF coll = <<>> THEN [coll |-> coll, success |-> FALSE]
    ELSE [coll |-> Tail(coll), success |-> TRUE]

\* RepoDelete whose except clause returns True: a delete that raised (on an
\* identifier that is no ObjectId) reports success.
RepoDeleteErrorSucceeds(coll, task_id) ==
    IF ~WellFormed(task_id) THEN [coll |-> coll, success |-> TRUE]
    ELSE LET i == Find(coll, ObjectId(task_id))
         IN  IF i = 0 THEN [coll |-> coll, success |-> FALSE]
             ELSE [coll |-> SubSeq(coll, 1, i - 1) \o SubSeq(coll, i + 1, Len(coll)),
                   success |-> TRUE]

\* RepoDelete reporting success whatever deleted_count is.
RepoDeleteAlwaysSucceeds(coll, task_id) ==
    IF ~WellFormed(task_id) THEN [coll |-> coll, success |-> FALSE]
    ELSE LET i == Find(coll, ObjectId(task_id))
         IN  IF i = 0 THEN [coll |-> coll, success |-> TRUE]
             ELSE [coll |-> SubSeq(coll, 1, i - 1) \o SubSeq(coll, i + 1, Len(coll)),
                   success |-> TRUE]

\* TaskRepository.delete: delete_one; deleted_count > 0.
RepoDelete(coll, task_id) ==
    IF ~WellFormed(task_id) THEN [coll |-> coll, success |-> FALSE]
    ELSE LET i == Find(coll, ObjectId(task_id))
         IN  IF i = 0 THEN [coll |-> coll, success |-> FALSE]
             ELSE [coll |-> SubSeq(coll, 1, i - 1) \o SubSeq(coll, i + 1, Len(coll)),
                   success |-> TRUE]

\* A query as find() gets it: priority and status by equality, due_date by
\* its $lte and $gte bounds; datetimes are compared as the collection keeps
\* them.
Matches(doc, query) ==
    /\ "priority" \in DOMAIN query => doc.priority = query.priority
    /\ "status" \in DOMAIN query => doc.status = query.status
    /\ "due_date" \in DOMAIN query =>
         /\ "lte" \in DOMAIN query.due_date =>
              doc.due_date <= BsonDate(query.due_date.lte)
         /\ "gte" \in DOMAIN query.due_date =>
              doc.due_date >= BsonDate(query.due_date.gte)

\* list(self.collection.find(query)), each document with its id as a string.
FindAll(coll, query) ==
    LET found == SelectSeq(coll, LAMBDA doc : Matches(doc, query))
    IN  [i \in 1..Len(found) |-> Expose(found[i])]

\* FilterQuery with each due_date bound assigned as a fresh dictionary: the
\* later one (due_date_after) replaces the earlier.
FilterQueryOverwrites(filters) ==
    LET ops == IF "due_date_after" \in DOMAIN filters THEN {"gte"}
               ELSE IF "due_date_before" \in DOMAIN filters THEN {"lte"}
               ELSE {}
        bounds == [b \in ops |-> IF b = "lte" THEN filters.due_date_before
                                 ELSE filters.due_date_after]
    IN  [f \in (DOMAIN filters \cap {"priority", "status"})
               \cup (IF ops # {} THEN {"due_date"} ELSE {}) |->
            IF f = "due_date" THEN bounds ELSE filters[f]]

\* The query TaskRepository.get_all builds from a filter specification; no
\* filters (None) and an empty specification both give the empty query.
FilterQuery(filters) ==
    LET ops == (IF "due_date_before" \in DOMAIN filters THEN {"lte"} ELSE {})
               \cup (IF "due_date_after" \in DOMAIN filters THEN {"gte"} ELSE {})
        bounds == [b \in ops |-> IF b = "lte" THEN filters.due_date_before
                                 ELSE filters.due_date_after]
    IN  [f \in (DOMAIN filters \cap {"priority", "status"})
               \cup (IF ops # {} THEN {"due_date"} ELSE {}) |->
            IF f = "due_date" THEN bounds ELSE filters[f]]

\* TaskRepository.get_all.
RepoGetAll(coll, filters) == FindAll(coll, FilterQuery(filters))

\* RepoGetDueTasks without the lower bound: overdue tasks are due too.
RepoGetDueTasksNoLowerBound(coll, hours) ==
    LET due_time == now + hours * TicksPerHour
    IN  FindAll(coll, [due_date |-> [lte |-> due_time]])

\* TaskRepository.get_due_tasks: now = datetime.utcnow().
RepoGetDueTasks(coll, hours) ==
    LET due_time == now + hours * TicksPerHour
    IN  FindAll(coll, [due_date |-> [gte |-> now, lte |-> due_time]])

(***************************************************************************)
(* services/task_service.py: TaskService.                                  *)
(***************************************************************************)
NoData == <<>>

Request(op, task_id, data, hours) ==
    [op |-> op, task_id |-> task_id, data |-> data, hours |-> hours, at |-> now]

\* A call is made: the model stops after MaxCalls of them.
Called ==
    /\ calls < MaxCalls
    /\ calls' = calls + 1

\* An exception leaves the operation: no (result, status) pair is returned.
Raise(exception) == [status |-> 0, body |-> <<>>, raised |-> exception]

\* if "tags" not in data: data["tags"] = [] raises TypeError: in the test
\* when data is None or a number (not iterable), in the assignment when
\* data is a list or a str without "tags".
TagsRaises(data) ==
    /\ ~IsObject(data)
    /\ \/ data.json \in {"null", "number"}
       \/ ~Contains(data, "tags", <<"t", "a", "g", "s">>)

\* DefaultTags without the default: the payload goes on as it came.
DefaultTagsNever(data) == data

\* if "tags" not in data: data["tags"] = []
DefaultTags(data) ==
    IF Contains(data, "tags", <<"t", "a", "g", "s">>) THEN data
    ELSE [f \in DOMAIN data \cup {"tags"} |->
            IF f = "tags" THEN [list |-> TRUE, strs |-> TRUE, items |-> <<>>]
            ELSE data[f]]

NotFound == [status |-> 404, body |-> [error |-> "Task not found"]]

\* TaskService.create_task.  The clock may advance by `elapsed` before
\* created_at is stamped.
CreateTask(data, elapsed) ==
    LET payload == DefaultTags(data)
        errors == LoadErrors(payload, FALSE)
    IN  /\ Called
        /\ req' = Request("create", "", data, 0)
        /\ IF TagsRaises(data)
           THEN /\ elapsed = 0
                /\ resp' = Raise("TypeError")
                /\ UNCHANGED <<store, now, nextId>>
           ELSE IF DOMAIN errors # {}
           THEN /\ elapsed = 0
                /\ resp' = [status |-> 400, body |-> [error |-> errors]]
                /\ UNCHANGED <<store, now, nextId>>
           ELSE /\ now + elapsed <= MaxTime
                /\ LET validated_data ==
                           [f \in DOMAIN payload \cup {"created_at"} |->
                               IF f = "created_at" THEN now + elapsed
                               ELSE Deserialize(payload)[f]]
                       r == RepoCreate(store, nextId, validated_data)
                   IN  /\ store' = r.coll
                       /\ resp' = [status |-> 201, body |-> Dump(r.task)]
                /\ nextId' = nextId + 1
                /\ now' = now + elapsed

\* TaskService.get_task_by_id.
GetTaskById(task_id) ==
    LET task == RepoGetById(store, task_id)
    IN  /\ Called
        /\ req' = Request("get", task_id, NoData, 0)
        /\ resp' = IF task # None
                   THEN [status |-> 200, body |-> Dump(task[1])]
                   ELSE NotFound
        /\ UNCHANGED <<store, now, nextId>>

\* UpdateTask validating field by field: the fields that pass are written
\* though the payload is refused.
UpdateTaskAppliesValid(task_id, data) ==
    LET payload == DefaultTags(data)
        errors == LoadErrors(payload, TRUE)
        passed == [f \in DOMAIN payload \ DOMAIN errors |-> payload[f]]
    IN  /\ Called
        /\ req' = Request("update", task_id, data, 0)
        /\ IF TagsRaises(data)
           THEN /\ resp' = Raise("TypeError")
                /\ UNCHANGED store
           ELSE IF DOMAIN errors # {}
           THEN /\ resp' = [status |-> 400, body |-> [error |-> errors]]
                /\ store' = RepoUpdate(store, task_id, Deserialize(passed)).coll
           ELSE LET r == RepoUpdate(store, task_id, Deserialize(payload))
                IN  /\ store' = r.coll
                    /\ resp' = IF r.task # None
                               THEN [status |-> 200, body |-> Dump(r.task[1])]
                               ELSE NotFound
        /\ UNCHANGED <<now, nextId>>

\* UpdateTask without the default of tags: a payload without tags leaves
\* the stored tags alone.
UpdateTaskKeepsTags(task_id, data) ==
    LET errors == LoadErrors(data, TRUE)
    IN  /\ Called
        /\ req' = Request("update", task_id, data, 0)
        /\ IF DOMAIN errors # {}
           THEN /\ resp' = [status |-> 400, body |-> [error |-> errors]]
                /\ UNCHANGED store
           ELSE LET r == RepoUpdate(store, task_id, Deserialize(data))
                IN  /\ store' = r.coll
                    /\ resp' = IF r.task # None
                               THEN [status |-> 200, body |-> Dump(r.task[1])]
                               ELSE NotFound
        /\ UNCHANGED <<now, nextId>>

\* TaskService.update_task.
UpdateTask(task_id, data) ==
    LET payload == DefaultTags(data)
        errors == LoadErrors(payload, TRUE)
    IN  /\ Called
        /\ req' = Request("update", task_id, data, 0)
        /\ IF TagsRaises(data)
           THEN /\ resp' = Raise("TypeError")
                /\ UNCHANGED store
           ELSE IF DOMAIN errors # {}
           THEN /\ resp' = [status |-> 400, body |-> [error |-> errors]]
                /\ UNCHANGED store
           ELSE LET r == RepoUpdate(store, task_id, Deserialize(payload))
                IN  /\ store' = r.coll
                    /\ resp' = IF r.task # None
                               THEN [status |-> 200, body |-> Dump(r.task[1])]
                               ELSE NotFound
        /\ UNCHANGED <<now, nextId>>

\* TaskService.delete_task.
DeleteTask(task_id) ==
    LET r == RepoDelete(store, task_id)
    IN  /\ Called
        /\ req' = Request("delete", task_id, NoData, 0)
        /\ store' = r.coll
        /\ resp' = IF r.success THEN [status |-> 204, body |-> <<>>] ELSE NotFound
        /\ UNCHANGED <<now, nextId>>

\* collection.update_one({"_id": ObjectId(task_id)}, {"$set": update_data}):
\* the collection afterwards and result.modified_count; ObjectId(task_id)
\* raises when the identifier is no ObjectId.
UpdateOne(coll, task_id, update_data) ==
    IF ~WellFormed(task_id)
    THEN [coll |-> coll, modified_count |-> 0, raised |-> TRUE]
    ELSE LET i == Find(coll, ObjectId(task_id))
         IN  IF i = 0 THEN [coll |-> coll, modified_count |-> 0, raised |-> FALSE]
             ELSE LET doc == SetFields(coll[i], BsonDoc(update_data))
                  IN  [coll |-> [coll EXCEPT ![i] = doc],
                       modified_count |-> IF doc = coll[i] THEN 0 ELSE 1,
                       raised |-> FALSE]

\* TaskService.update_task among other requests, up to and with its first
\* store call, update_one.  The call returns at once when the payload is
\* refused and when nothing was modified; otherwise it goes on to read the
\* document back, and other requests may reach the store before it does.
UpdateTaskWrite(task_id, data) ==
    LET payload == DefaultTags(data)
        errors == LoadErrors(payload, TRUE)
        update_data == Deserialize(payload)
        result == UpdateOne(store, task_id, update_data)
    IN  /\ Called
        /\ IF TagsRaises(data)
           THEN /\ req' = Request("update", task_id, data, 0)
                /\ resp' = Raise("TypeError")
                /\ UNCHANGED <<store, pending>>
           ELSE IF DOMAIN errors # {}
           THEN /\ req' = Request("update", task_id, data, 0)
                /\ resp' = [status |-> 400, body |-> [error |-> errors]]
                /\ UNCHANGED <<store, pending>>
           ELSE IF result.raised \/ result.modified_count = 0
           THEN /\ req' = Request("update", task_id, data, 0)
                /\ resp' = NotFound
                /\ UNCHANGED <<store, pending>>
           ELSE /\ store' = result.coll
                /\ pending' = Append(pending,
                                 [op |-> "update", task_id |-> task_id, data |-> data,
                                  update_data |-> update_data,
                                  modified_count |-> result.modified_count,
                                  at |-> now])
                /\ UNCHANGED <<req, resp>>
        /\ UNCHANGED <<now, nextId, http>>

\* The rest of that call: self.get_by_id(task_id) on the collection as it
\* is by now, and the return of update_task.
UpdateTaskReadBack(i) ==
    LET call == pending[i]
        updated_task == RepoGetById(store, call.task_id)
    IN  /\ call.op = "update"
        /\ req' = [op |-> "update", task_id |-> call.task_id, data |-> call.data,
                   hours |-> 0, at |-> call.at]
        /\ resp' = IF updated_task # None
                   THEN [status |-> 200, body |-> Dump(updated_task[1])]
                   ELSE NotFound
        /\ pending' = SubSeq(pending, 1, i - 1) \o SubSeq(pending, i + 1, Len(pending))
        /\ UNCHANGED <<store, now, nextId, calls, http>>

\* TaskService.create_task among other requests, up to and with its first
\* store call, insert_one.  The call returns at once when the payload is
\* refused; otherwise it goes on to read the document back, and other
\* requests may reach the store before it does.
CreateTaskInsert(data) ==
    LET payload == DefaultTags(data)
        errors == LoadErrors(payload, FALSE)
        validated_data ==
            [f \in DOMAIN payload \cup {"created_at"} |->
                IF f = "created_at" THEN now ELSE Deserialize(payload)[f]]
        doc == BsonDoc([f \in DOMAIN validated_data \cup {"_id"} |->
                           IF f = "_id" THEN nextId ELSE validated_data[f]])
    IN  /\ Called
        /\ IF TagsRaises(data)
           THEN /\ req' = Request("create", "", data, 0)
                /\ resp' = Raise("TypeError")
                /\ UNCHANGED <<store, nextId, pending>>
           ELSE IF DOMAIN errors # {}
           THEN /\ req' = Request("create", "", data, 0)
                /\ resp' = [status |-> 400, body |-> [error |-> errors]]
                /\ UNCHANGED <<store, nextId, pending>>
           ELSE /\ store' = Append(store, doc)
                /\ nextId' = nextId + 1
                /\ pending' = Append(pending,
                                 [op |-> "create", data |-> data,
                                  inserted_id |-> nextId, at |-> now])
                /\ UNCHANGED <<req, resp>>
        /\ UNCHANGED <<now, http>>

\* The rest of that call: find_one by the inserted _id on the collection as
\* it is by now, and the return of create_task.  When the document is gone,
\* find_one gives None and inserted_task["id"] = ... raises TypeError, which
\* nothing on the way catches.
CreateTaskReadBack(i) ==
    LET call == pending[i]
        found == Find(store, call.inserted_id)
    IN  /\ call.op = "create"
        /\ req' = [op |-> "create", task_id |-> "", data |-> call.data,
                   hours |-> 0, at |-> call.at]
        /\ resp' = IF found # 0
                   THEN [status |-> 201, body |-> Dump(Expose(store[found]))]
                   ELSE Raise("TypeError")
        /\ pending' = SubSeq(pending, 1, i - 1) \o SubSeq(pending, i + 1, Len(pending))
        /\ UNCHANGED <<store, now, nextId, calls, http>>

\* Time passes between calls.
Tick ==
    /\ now < MaxTime
    /\ now' = now + 1
    /\ UNCHANGED <<store, nextId, req, resp, calls, http, pending>>

DumpMany(tasks) == [i \in 1..Len(tasks) |-> Dump(tasks[i])]

\* TaskService.get_all_tasks.
GetAllTasks(filters) ==
    /\ Called
    /\ req' = Request("list", "", filters, 0)
    /\ resp' = [status |-> 200, body |-> DumpMany(RepoGetAll(store, filters))]
    /\ UNCHANGED <<store, now, nextId>>

\* TaskService.get_due_tasks.
GetDueTasks(hours) ==
    /\ Called
    /\ req' = Request("due", "", NoData, hours)
    /\ resp' = [status |-> 200, body |-> DumpMany(RepoGetDueTasks(store, hours))]
    /\ UNCHANGED <<store, now, nextId>>

\* Join with ", " between the tags.
RECURSIVE JoinWithSpace(_)
JoinWithSpace(strings) ==
    IF strings = <<>> THEN ""
    ELSE IF Len(strings) = 1 THEN strings[1]
    ELSE strings[1] \o ", " \o JoinWithSpace(Tail(strings))

\* ",".join(tags)
RECURSIVE Join(_)
Join(strings) ==
    IF strings = <<>> THEN ""
    ELSE IF Len(strings) = 1 THEN strings[1]
    ELSE strings[1] \o "," \o Join(Tail(strings))

\* A value as csv.DictWriter writes it into a cell: its text.  The text of
\* a datetime is the text of the instant it denotes.
Cell(field, value) ==
    IF field \in {"due_date", "created_at"} THEN ToString(value) ELSE value

\* One row of the export: the dumped task, its tags joined, in the order of
\* the schema's fields.
CsvRow(task) ==
    LET flat == [Dump(task) EXCEPT !.tags = Join(@)]
    IN  [i \in 1..Len(SchemaFields) |-> Cell(SchemaFields[i], flat[SchemaFields[i]])]

\* TaskService.get_tasks_csv: the rows of the text written, the header first.
\* It returns the text alone, which the routing layer sends with status 200.
GetTasksCsv ==
    LET tasks == RepoGetAll(store, NoData)
    IN  /\ Called
        /\ req' = Request("csv", "", NoData, 0)
        /\ resp' = [status |-> 200,
                    body |-> <<SchemaFields>> \o [i \in 1..Len(tasks) |-> CsvRow(tasks[i])]]
        /\ UNCHANGED <<store, now, nextId>>

(***************************************************************************)
(* controllers/task_controller.py and the error handler of app.py.         *)
(***************************************************************************)
NoArgs == <<>>

HttpRequest(method, rule, task_id, body, args) ==
    [method |-> method, rule |-> rule, task_id |-> task_id, body |-> body,
     args |-> args]

\* app.py, handle_exception: an exception no view catches.
InternalError ==
    [status |-> 500, body |-> [error |-> "Internal server error", status_code |-> 500]]

\* return jsonify(result), status_code
Jsonify(result) ==
    IF "raised" \in DOMAIN result THEN InternalError
    ELSE [status |-> result.status, body |-> result.body]

\* try: ... except InvalidId: return jsonify({"error": "Invalid task ID"}), 400
ExceptInvalidId(result) ==
    IF "raised" \in DOMAIN result /\ result.raised = "InvalidId"
    THEN [status |-> 400, body |-> [error |-> "Invalid task ID"]]
    ELSE Jsonify(result)

\* POST /tasks
create_task(data) ==
    /\ \E elapsed \in 0..1 : CreateTask(data, elapsed)
    /\ http' = [request |-> HttpRequest("POST", "/tasks", "", data, NoArgs),
                response |-> Jsonify(resp')]
    /\ UNCHANGED pending

\* GET /tasks/<task_id>
get_task(task_id) ==
    /\ GetTaskById(task_id)
    /\ http' = [request |-> HttpRequest("GET", "/tasks/<task_id>", task_id, NoData, NoArgs),
                response |-> ExceptInvalidId(resp')]
    /\ UNCHANGED pending

\* PUT /tasks/<task_id>
update_task(task_id, data) ==
    /\ UpdateTask(task_id, data)
    /\ http' = [request |-> HttpRequest("PUT", "/tasks/<task_id>", task_id, data, NoArgs),
                response |-> ExceptInvalidId(resp')]
    /\ UNCHANGED pending

\* DELETE /tasks/<task_id>: a 204 goes out with the empty text as its body.
delete_task(task_id) ==
    /\ DeleteTask(task_id)
    /\ http' = [request |-> HttpRequest("DELETE", "/tasks/<task_id>", task_id, NoData, NoArgs),
                response |-> IF resp'.status = 204
                             THEN [status |-> 204, body |-> ""]
                             ELSE ExceptInvalidId(resp')]
    /\ UNCHANGED pending

\* The characters of the decimal digits, and the value of each.
DigitChars == {"0", "1", "2", "3", "4", "5", "6", "7", "8", "9"}
DigitValue(char) ==
    CASE char = "0" -> 0 [] char = "1" -> 1 [] char = "2" -> 2 [] char = "3" -> 3
      [] char = "4" -> 4 [] char = "5" -> 5 [] char = "6" -> 6 [] char = "7" -> 7
      [] char = "8" -> 8 [] char = "9" -> 9

\* int(text) succeeds: an optional sign, then digits.  (int() also takes
\* blanks around the number and underscores between digits, which no query
\* value of the model has.)
IsIntText(chars) ==
    LET digits == IF chars # <<>> /\ chars[1] \in {"+", "-"} THEN Tail(chars) ELSE chars
    IN  /\ digits # <<>>
        /\ \A i \in 1..Len(digits) : digits[i] \in DigitChars

RECURSIVE Decimal(_)
Decimal(digits) ==
    IF digits = <<>> THEN 0
    ELSE 10 * Decimal(SubSeq(digits, 1, Len(digits) - 1)) + DigitValue(digits[Len(digits)])

\* int(text), for a text it succeeds on.
IntOf(chars) ==
    CASE chars[1] = "-" -> 0 - Decimal(Tail(chars))
      [] chars[1] = "+" -> Decimal(Tail(chars))
      [] OTHER -> Decimal(chars)

\* HoursArg with another default than the service's own.
HoursArgDefaultsToOne(args) ==
    IF "hours" \notin DOMAIN args THEN 1
    ELSE IF IsIntText(args.hours) THEN IntOf(args.hours)
    ELSE 1

\* request.args.get("hours", 24, type=int): the default when the key is
\* absent and when int() raises ValueError on its value.
HoursArg(args) ==
    IF "hours" \notin DOMAIN args THEN 24
    ELSE IF IsIntText(args.hours) THEN IntOf(args.hours)
    ELSE 24

\* GET /tasks/due
get_due_tasks(args) ==
    /\ GetDueTasks(HoursArg(args))
    /\ http' = [request |-> HttpRequest("GET", "/tasks/due", "", NoData, args),
                response |-> Jsonify(resp')]
    /\ UNCHANGED pending

(***************************************************************************)
(* The calls the model makes: payloads as the routing layer hands them     *)
(* over (parsed JSON objects), identifiers as they come in the path.       *)
(***************************************************************************)
Iso(t) == [iso |-> TRUE, t |-> t]
NotADate == [iso |-> FALSE, t |-> 0]
TagList(items) == [list |-> TRUE, strs |-> TRUE, items |-> items]
NotAList == [list |-> FALSE, strs |-> FALSE, items |-> <<>>]
ListOfNumbers == [list |-> TRUE, strs |-> FALSE, items |-> <<>>]

Restrict(data, keys) == [f \in DOMAIN data \cap keys |-> data[f]]
With(data, field, value) ==
    [f \in DOMAIN data \cup {field} |-> IF f = field THEN value ELSE data[f]]

\* The example payload of the specification, due at instant t.
Example(t) ==
    [title |-> "T", description |-> "D", priority |-> "high", status |-> "TODO",
     due_date |-> Iso(t)]

\* A second payload, differing from the example in every field.
Other(t) ==
    [title |-> "", description |-> "E", priority |-> "low", status |-> "COMPLETED",
     due_date |-> Iso(t), tags |-> TagList(<<"a", "b">>)]

\* A payload with one field missing, or with one more field that is invalid
\* or unknown.
Missing(data) == {Restrict(data, DOMAIN data \ {f}) : f \in Required}
Invalid(data) ==
    {With(data, "priority", "urgent"), With(data, "status", "DONE"),
     With(data, "due_date", NotADate), With(data, "tags", NotAList),
     With(data, "tags", ListOfNumbers), With(data, "id", "1"),
     With(data, "created_at", Iso(0))}

CreatePayloads ==
    {Example(0), Example(1), Other(3), With(Example(0), "tags", TagList(<<>>)),
     With(Example(0), "description", "")}
    \cup Missing(Example(0)) \cup Invalid(Example(0))

UpdatePayloads ==
    {Restrict(Other(3), keys) : keys \in SUBSET {"title", "priority", "due_date", "tags"}}
    \cup {Restrict(Other(3), {"description"}), Restrict(Other(3), {"status"}),
          Restrict(Example(0), {"title"}), Restrict(Example(0), {"due_date"}),
          Restrict(Example(1), {"due_date"}),
          [tags |-> TagList(<<>>)],
          [priority |-> "high", tags |-> TagList(<<"a", "b">>)],
          [description |-> ""]}
    \cup Invalid(Restrict(Other(3), {"title"}))

TaskIds == {OidStr(1), OidStr(2), "not-an-object-id"}

Init ==
    /\ store = <<>>
    /\ now = 0
    /\ nextId = 1
    /\ req = [op |-> "none", task_id |-> "", data |-> NoData, hours |-> 0, at |-> 0]
    /\ resp = [status |-> 0, body |-> <<>>]
    /\ calls = 0
    /\ http = [request |-> <<>>, response |-> <<>>]
    /\ pending = <<>>

\* An operation of the service called with arguments the routing layer has
\* already parsed, and run from its start to its end with no other request
\* in between; the request the arguments came in is left out.
Direct(Operation) == Operation /\ UNCHANGED <<http, pending>>

\* The by-id operations.
Next ==
    \/ \E data \in CreatePayloads, elapsed \in 0..1 : Direct(CreateTask(data, elapsed))
    \/ \E task_id \in TaskIds : Direct(GetTaskById(task_id))
    \/ \E task_id \in TaskIds, data \in UpdatePayloads : Direct(UpdateTask(task_id, data))
    \/ \E task_id \in TaskIds : Direct(DeleteTask(task_id))

Spec == Init /\ [][Next]_vars

\* Tasks to list: two that share a priority and differ in status, and due
\* dates on both sides of every bound asked for.
QueryPayloads ==
    {Example(0), Example(2), Example(5), Other(2),
     With(Example(2), "status", "COMPLETED")}

\* Filter specifications as the routing layer builds them: any subset of the
\* four keys, the bounds parsed into datetimes.
FilterSpecs ==
    LET full == [priority |-> "high", status |-> "TODO",
                 due_date_before |-> 3, due_date_after |-> 1]
    IN  {Restrict(full, keys) : keys \in SUBSET DOMAIN full}
        \cup {[priority |-> "low"], [status |-> "COMPLETED"],
              [priority |-> "high", status |-> "COMPLETED"],
              [due_date_before |-> 2, due_date_after |-> 2]}

HoursInputs == {1, 2}

\* The listing operations, over collections that create has filled.
NextQuery ==
    \/ \E data \in QueryPayloads : Direct(CreateTask(data, 0))
    \/ \E filters \in FilterSpecs : Direct(GetAllTasks(filters))
    \/ \E hours \in HoursInputs : Direct(GetDueTasks(hours))
    \/ Direct(GetTasksCsv)
    \/ Tick

SpecQuery == Init /\ [][NextQuery]_vars

\* Payloads that differ in their tags: none, a list of strings, and values
\* that are no list of strings.
TagsPayloads ==
    {Example(0), Other(3), With(Example(0), "tags", NotAList),
     With(Example(0), "tags", ListOfNumbers)}

TagsUpdates ==
    {NoData, [title |-> "U"], [tags |-> TagList(<<"c">>)], [tags |-> NotAList],
     [tags |-> ListOfNumbers]}

\* Every operation that stores or returns tasks.
NextTags ==
    \/ \E data \in TagsPayloads : Direct(CreateTask(data, 0))
    \/ \E task_id \in TaskIds : Direct(GetTaskById(task_id))
    \/ \E task_id \in TaskIds, data \in TagsUpdates : Direct(UpdateTask(task_id, data))
    \/ \E task_id \in TaskIds : Direct(DeleteTask(task_id))
    \/ \E filters \in {NoData, [priority |-> "high"]} : Direct(GetAllTasks(filters))
    \/ \E hours \in {1, 24} : Direct(GetDueTasks(hours))

SpecTags == Init /\ [][NextTags]_vars

\* Requests served at the same time: the store calls of one may fall between
\* the two store calls of an update or of a create.
ConcurrentUpdates == {[title |-> "U"], [title |-> "V"], [status |-> "DONE"]}
ConcurrentCreates == {Example(0), With(Example(0), "status", "DONE")}

NextConcurrent ==
    \/ \E data \in ConcurrentCreates : CreateTaskInsert(data)
    \/ \E i \in 1..Len(pending) : CreateTaskReadBack(i)
    \/ \E task_id \in TaskIds, data \in ConcurrentUpdates :
          UpdateTaskWrite(task_id, data)
    \/ \E i \in 1..Len(pending) : UpdateTaskReadBack(i)
    \/ \E task_id \in TaskIds : Direct(DeleteTask(task_id))

SpecConcurrent == Init /\ [][NextConcurrent]_vars

\* Request bodies as get_json() parses them: objects, and the JSON values
\* that are no object.
NotAnObject ==
    {JsonNull, JsonNumber, JsonArray(<<>>), JsonArray(<<"tags">>),
     JsonString(<<"x">>), JsonString(<<"t", "a", "g", "s">>)}

PostBodies == {Example(1), With(Example(1), "priority", "urgent")} \cup NotAnObject
PutBodies == {[title |-> "U"], [title |-> "U", status |-> "DONE"]} \cup NotAnObject

\* Query strings of GET /tasks/due: without hours, and with hours=2, -1, 0,
\* abc, 1.5 and the empty text.
DueArgs ==
    {NoArgs} \cup
    {[hours |-> chars] : chars \in {<<"2">>, <<"-", "1">>, <<"0">>, <<"a", "b", "c">>,
                                     <<"1", ".", "5">>, <<>>}}

\* Requests as the routing layer serves them.
NextRouting ==
    \/ \E data \in PostBodies : create_task(data)
    \/ \E task_id \in TaskIds : get_task(task_id)
    \/ \E task_id \in TaskIds, data \in PutBodies : update_task(task_id, data)
    \/ \E task_id \in TaskIds : delete_task(task_id)
    \/ \E args \in DueArgs : get_due_tasks(args)

SpecRouting == Init /\ [][NextRouting]_vars

(***************************************************************************)
(* Properties.                                                             *)
(***************************************************************************)
\* This step is a call of the operation `op`.
IsCall(op) == calls' = calls + 1 /\ req'.op = op

\* An instant rounded down to a whole millisecond.
FloorMs(t) == CHOOSE m \in 0..t : m % TicksPerMs = 0 /\ t < m + TicksPerMs

\* The constraints of section 4.1 on the fields a payload holds.
FieldsValid(data) ==
    /\ DOMAIN data \subseteq
         {"title", "description", "priority", "status", "due_date", "tags"}
    /\ "priority" \in DOMAIN data => data.priority \in {"low", "medium", "high"}
    /\ "status" \in DOMAIN data => data.status \in {"TODO", "IN_PROGRESS", "COMPLETED"}
    /\ "due_date" \in DOMAIN data => data.due_date.iso
    /\ "tags" \in DOMAIN data => data.tags.list /\ data.tags.strs

\* A payload that passes full validation.
FullyValid(data) ==
    /\ {"title", "description", "priority", "status", "due_date"} \subseteq DOMAIN data
    /\ FieldsValid(data)

\* The documents of a collection whose identifier reads task_id.
Stored(coll, task_id) ==
    {coll[i] : i \in {j \in 1..Len(coll) : ToString(coll[j]._id) = task_id}}

\* The returned task shows the fields of the stored document.
Shows(task, doc) ==
    /\ task.id = ToString(doc._id)
    /\ \A f \in {"title", "description", "priority", "status", "due_date",
                 "created_at", "tags"} : task[f] = doc[f]

\* What C1 says of a creation besides the bound on created_at.
CreatedOne ==
    /\ resp'.status = 201
    /\ resp'.body.id # ""
    /\ "tags" \notin DOMAIN req'.data => resp'.body.tags = <<>>
    /\ Len(store') = Len(store) + 1
    /\ SubSeq(store', 1, Len(store)) = store
    /\ Stored(store, resp'.body.id) = {}
    /\ Shows(resp'.body, store'[Len(store')])
    /\ \A f \in {"title", "description", "priority", "status"} :
           resp'.body[f] = req'.data[f]

\* C1 as stated: for every payload that passes full validation, create_task
\* returns 201 with a task whose id is non-empty, whose created_at is at or
\* after the time of the call and whose tags are [] when the payload had no
\* tags key, and exactly one new record with those fields is added to the store.
C1_CreateAsStated ==
    [][IsCall("create") /\ FullyValid(req'.data) =>
          CreatedOne /\ resp'.body.created_at >= req'.at]_vars

\* C1 amended: the same, with created_at at or after the time of the call
\* rounded down to a whole millisecond (the resolution of a stored datetime),
\* and not after the time the call returns.
C1_Create ==
    [][IsCall("create") /\ FullyValid(req'.data) =>
          /\ CreatedOne
          /\ resp'.body.created_at >= FloorMs(req'.at)
          /\ resp'.body.created_at <= now']_vars

\* A payload without tags was created by a call made inside a millisecond,
\* into a collection that already held a document.
C1_Witness ==
    /\ req.op = "create"
    /\ resp.status = 201
    /\ "tags" \notin DOMAIN req.data
    /\ resp.body.tags = <<>>
    /\ req.at % TicksPerMs # 0
    /\ Len(store) = 2

\* C2: for every creation payload that lacks one of title, description,
\* priority, status, due_date, or whose priority or status is outside its
\* enumeration, create_task returns 400 with a field-error map (naming each
\* such field) and the store is unchanged.
C2_CreateInvalid ==
    [][IsCall("create") =>
          LET data == req'.data
              lacking == {"title", "description", "priority", "status", "due_date"}
                         \ DOMAIN data
              outside ==
                  {f \in {"priority"} \cap DOMAIN data :
                      data[f] \notin {"low", "medium", "high"}}
                  \cup {f \in {"status"} \cap DOMAIN data :
                      data[f] \notin {"TODO", "IN_PROGRESS", "COMPLETED"}}
          IN  lacking \cup outside # {} =>
                /\ resp'.status = 400
                /\ lacking \cup outside \subseteq DOMAIN resp'.body.error
                /\ \A f \in DOMAIN resp'.body.error : resp'.body.error[f] # <<>>
                /\ store' = store]_vars

\* A payload with an out-of-enum priority was refused while the collection
\* held a document.
C2_Witness ==
    /\ req.op = "create"
    /\ resp.status = 400
    /\ "priority" \in DOMAIN req.data
    /\ req.data.priority \notin {"low", "medium", "high"}
    /\ Len(store) >= 1

\* What only an update of task_id with this payload may change: the document
\* with that identifier, in the fields the payload names and in tags.
UpdateFrame(task_id, data) ==
    /\ Len(store') = Len(store)
    /\ \A i \in 1..Len(store) :
          /\ store'[i]._id = store[i]._id
          /\ store'[i].created_at = store[i].created_at
          /\ IF ToString(store[i]._id) = task_id
             THEN \A f \in {"title", "description", "priority", "status", "due_date"}
                           \ DOMAIN data : store'[i][f] = store[i][f]
             ELSE store'[i] = store[i]

\* C3: a successful update_task(id, payload) changes, on the stored record
\* with that id, only the fields named in the payload (plus tags); id and
\* created_at of every record are the same before and after any update, and a
\* payload that names id or created_at is not applied.
C3_UpdateFrame ==
    [][IsCall("update") =>
          /\ UpdateFrame(req'.task_id, req'.data)
          /\ DOMAIN req'.data \cap {"id", "created_at"} # {} =>
                resp'.status = 400 /\ store' = store]_vars

\* An update naming priority and not title succeeded on one of two documents.
C3_Witness ==
    /\ req.op = "update"
    /\ resp.status = 200
    /\ Len(store) = 2
    /\ "priority" \in DOMAIN req.data
    /\ "title" \notin DOMAIN req.data

C5_DeleteTwice ==
    [][/\ IsCall("delete") =>
            IF Stored(store, req'.task_id) # {}
            THEN /\ resp' = [status |-> 204, body |-> <<>>]
                 /\ Stored(store', req'.task_id) = {}
                 /\ Len(store') = Len(store) - 1
            ELSE /\ resp'.status = 404
                 /\ store' = store
       /\ ~IsCall("create") =>
            \A task_id \in TaskIds :
                Stored(store, task_id) = {} => Stored(store', task_id) = {}]_vars

\* A second delete of an identifier that was generated and whose record is
\* gone answered 404.
C5_Witness ==
    /\ req.op = "delete"
    /\ resp.status = 404
    /\ \E oid \in 1..(nextId - 1) : ToString(oid) = req.task_id
    /\ Stored(store, req.task_id) = {}

\* The returned list holds exactly the stored tasks that satisfy Sat.
Exactly(tasks, coll, Sat(_)) ==
    LET sat == {i \in 1..Len(coll) : Sat(coll[i])}
    IN  /\ Len(tasks) = Cardinality(sat)
        /\ \A i \in sat : \E k \in 1..Len(tasks) : Shows(tasks[k], coll[i])
        /\ \A k \in 1..Len(tasks) : \E i \in sat : Shows(tasks[k], coll[i])

\* A stored task satisfies every key present in the filter specification,
\* the lower bound taken at `after`.
Satisfies(doc, filters, after) ==
    /\ "priority" \in DOMAIN filters => doc.priority = filters.priority
    /\ "status" \in DOMAIN filters => doc.status = filters.status
    /\ "due_date_before" \in DOMAIN filters => doc.due_date <= filters.due_date_before
    /\ "due_date_after" \in DOMAIN filters => doc.due_date >= after

\* C6 as stated: get_all_tasks returns 200 and exactly the stored tasks that
\* satisfy all present keys at once, due_date <= due_date_before and
\* due_date >= due_date_after; an absent key imposes no constraint.
C6_ListAsStated ==
    [][IsCall("list") =>
          LET filters == req'.data
              Sat(doc) == Satisfies(doc, filters,
                            IF "due_date_after" \in DOMAIN filters
                            THEN filters.due_date_after ELSE 0)
          IN  /\ resp'.status = 200
              /\ Exactly(resp'.body, store, Sat)
              /\ store' = store]_vars

\* C6 amended: the same, with the lower bound being due_date_after rounded
\* down to a whole millisecond.
C6_List ==
    [][IsCall("list") =>
          LET filters == req'.data
              Sat(doc) == Satisfies(doc, filters,
                            IF "due_date_after" \in DOMAIN filters
                            THEN FloorMs(filters.due_date_after) ELSE 0)
          IN  /\ resp'.status = 200
              /\ Exactly(resp'.body, store, Sat)
              /\ store' = store]_vars

\* A filter with all four keys returned some of the stored tasks, not all.
C6_Witness ==
    /\ req.op = "list"
    /\ DOMAIN req.data = {"priority", "status", "due_date_before", "due_date_after"}
    /\ Len(resp.body) > 0
    /\ Len(resp.body) < Len(store)

RECURSIVE Joined(_, _)
Joined(tags, n) ==
    IF n = 0 THEN ""
    ELSE IF n = 1 THEN tags[1]
    ELSE Joined(tags, n - 1) \o "," \o tags[n]

\* C8: get_tasks_csv renders the header row id,title,description,priority,
\* status,due_date,created_at,tags and then one row per stored task, all of
\* them, whose tags column is the task's tags joined with "," in their stored
\* order (["a","b"] gives a,b and [] gives the empty string).
C8_Csv ==
    [][IsCall("csv") =>
          LET rows == resp'.body
          IN  /\ rows[1] = <<"id", "title", "description", "priority", "status",
                             "due_date", "created_at", "tags">>
              /\ Len(rows) = Len(store) + 1
              /\ \A i \in 1..Len(store) :
                    LET row == rows[i + 1]
                        doc == store[i]
                    IN  /\ Len(row) = 8
                        /\ row[1] = ToString(doc._id)
                        /\ row[2] = doc.title
                        /\ row[3] = doc.description
                        /\ row[4] = doc.priority
                        /\ row[5] = doc.status
                        /\ row[8] = Joined(doc.tags, Len(doc.tags))
                        /\ doc.tags = <<"a", "b">> => row[8] = "a,b"
                        /\ doc.tags = <<>> => row[8] = ""
              /\ store' = store]_vars

\* The export of a task tagged a and b and of a task without tags.
C8_Witness ==
    /\ req.op = "csv"
    /\ Len(resp.body) = 3
    /\ \E i, j \in 2..3 : resp.body[i][8] = "a,b" /\ resp.body[j][8] = ""

\* C9: the task create_task returned is the stored one; get_task_by_id of a
\* stored id returns 200 with the stored task, and 404 with "Task not found"
\* when there is no record; a record stays as it is through every call that
\* is neither an update nor a delete of its id; a successful delete removes it.
C9_CreateGetDelete ==
    [][/\ IsCall("create") /\ resp'.status = 201 =>
            /\ DOMAIN resp'.body = {"id", "title", "description", "priority",
                                    "status", "due_date", "created_at", "tags"}
            /\ \E doc \in Stored(store', resp'.body.id) : Shows(resp'.body, doc)
       /\ IsCall("get") =>
            /\ store' = store
            /\ IF Stored(store, req'.task_id) # {}
               THEN /\ resp'.status = 200
                    /\ DOMAIN resp'.body = {"id", "title", "description", "priority",
                                            "status", "due_date", "created_at", "tags"}
                    /\ \A doc \in Stored(store, req'.task_id) : Shows(resp'.body, doc)
               ELSE resp' = [status |-> 404, body |-> [error |-> "Task not found"]]
       /\ \A task_id \in TaskIds :
            ~((IsCall("update") \/ IsCall("delete")) /\ req'.task_id = task_id) =>
                Stored(store, task_id) \subseteq Stored(store', task_id)
       /\ IsCall("delete") /\ resp'.status = 204 =>
            Stored(store', req'.task_id) = {}]_vars

\* One of two stored tasks was fetched by its id.
C9_Witness ==
    /\ req.op = "get"
    /\ resp.status = 200
    /\ Len(store) = 2
    /\ resp.body.id = req.task_id

\* The value a valid payload asks for in a field (tags defaulted to []).
Asked(data, f) ==
    CASE f = "tags" -> IF "tags" \in DOMAIN data THEN data.tags.items ELSE <<>>
      [] f = "due_date" -> data.due_date.t
      [] OTHER -> data[f]

\* What C10 says, with `same(doc, f)` telling that field f of the payload
\* already equals the stored value.
UpdateOutcome(same(_, _)) ==
    LET data == req'.data
        docs == Stored(store, req'.task_id)
        noop == \A doc \in docs : \A f \in DOMAIN data \cup {"tags"} : same(doc, f)
    IN  IF docs = {} \/ noop
        THEN /\ resp'.status = 404
             /\ store' = store
        ELSE /\ resp'.status = 200
             /\ \E doc \in Stored(store', req'.task_id) : Shows(resp'.body, doc)
             /\ Len(store') = Len(store)

\* C10 as stated: update_task with a valid payload returns 404 exactly when no
\* stored record has the id or every field of the payload (the injected tags
\* too) already equals the stored value, the store unchanged; in every other
\* case it returns 200 with the record as stored after the update.
C10_UpdateAsStated ==
    [][IsCall("update") /\ FieldsValid(req'.data) =>
          LET Same(doc, f) == doc[f] = Asked(req'.data, f)
          IN  UpdateOutcome(Same)]_vars

\* C10 amended: a due_date of the payload equals the stored value when it
\* does once rounded down to a whole millisecond.
C10_Update ==
    [][IsCall("update") /\ FieldsValid(req'.data) =>
          LET Same(doc, f) ==
                  doc[f] = IF f = "due_date" THEN FloorMs(Asked(req'.data, f))
                           ELSE Asked(req'.data, f)
          IN  UpdateOutcome(Same)]_vars

\* An update whose every field equals the stored value answered 404 though
\* the record exists.
C10_Witness ==
    /\ req.op = "update"
    /\ resp.status = 404
    /\ FieldsValid(req.data)
    /\ DOMAIN req.data # {}
    /\ Stored(store, req.task_id) # {}

\* An identifier that is not the string of any ObjectId.
Malformed(task_id) == \A oid \in 1..(MaxCalls + 1) : ToString(oid) # task_id

\* C11: for every identifier that is not well-formed, get_task_by_id,
\* update_task with a valid payload and delete_task each return the not-found
\* outcome (404), as they do for a well-formed identifier with no record, and
\* leave the store unchanged.
C11_MalformedId ==
    [][(IsCall("get") \/ IsCall("delete")
          \/ (IsCall("update") /\ FieldsValid(req'.data)))
         /\ (Malformed(req'.task_id) \/ Stored(store, req'.task_id) = {}) =>
          /\ resp' = [status |-> 404, body |-> [error |-> "Task not found"]]
          /\ store' = store]_vars

\* A valid update under a malformed identifier answered 404, the collection
\* holding a document.
C11_Witness ==
    /\ req.op = "update"
    /\ Malformed(req.task_id)
    /\ FieldsValid(req.data)
    /\ DOMAIN req.data # {}
    /\ resp.status = 404
    /\ Len(store) >= 1

\* The request this step serves came in with this method.
Served(method) == http'.request.method = method

\* C12 as stated: GET, PUT (with a valid payload) and DELETE on /tasks/{id}
\* with an id that is not well-formed answer 400 with {error: "Invalid task
\* ID"}, and with a well-formed id that has no record answer 404.
C12_InvalidIdentifier ==
    [][(Served("GET") /\ http'.request.rule = "/tasks/<task_id>")
          \/ (Served("PUT") /\ FieldsValid(http'.request.body))
          \/ Served("DELETE") =>
          IF Malformed(http'.request.task_id)
          THEN http'.response = [status |-> 400, body |-> [error |-> "Invalid task ID"]]
          ELSE Stored(store, http'.request.task_id) = {} =>
                  http'.response.status = 404]_vars

\* The text of a query value.
RECURSIVE Text(_)
Text(chars) == IF chars = <<>> THEN "" ELSE chars[1] \o Text(Tail(chars))

\* A query value that writes an integer in decimal: digits, after a minus
\* sign or none.
IsInteger(chars) ==
    LET digits == IF chars # <<>> /\ chars[1] = "-" THEN Tail(chars) ELSE chars
    IN  /\ digits # <<>>
        /\ \A i \in 1..Len(digits) :
              digits[i] \in {"0", "1", "2", "3", "4", "5", "6", "7", "8", "9"}

\* This step serves GET /tasks/due.
ServedDue == Served("GET") /\ http'.request.rule = "/tasks/due"

\* C13 as stated: a GET /tasks/due whose hours value is not an integer is
\* rejected by the controller and never reaches get_due_tasks; get_due_tasks
\* is only ever called with a positive integer hours, 24 when the parameter
\* is absent.
C13_HoursAsStated ==
    [][/\ ServedDue =>
            LET args == http'.request.args
            IN  "hours" \in DOMAIN args /\ ~IsInteger(args.hours) =>
                    /\ ~IsCall("due")
                    /\ http'.response.status = 400
       /\ IsCall("due") =>
            /\ req'.hours > 0
            /\ "hours" \notin DOMAIN http'.request.args => req'.hours = 24]_vars

\* C13 amended: a GET /tasks/due whose hours value is not an integer is not
\* rejected: get_due_tasks is called with 24, as when the parameter is
\* absent, and the answer is 200; an hours value that is an integer reaches
\* get_due_tasks as that integer, zero and negative ones too.
C13_Hours ==
    [][ServedDue =>
          LET args == http'.request.args
          IN  /\ IsCall("due")
              /\ http'.response.status = 200
              /\ IF "hours" \in DOMAIN args /\ IsInteger(args.hours)
                 THEN ToString(req'.hours) = Text(args.hours)
                 ELSE req'.hours = 24]_vars

\* GET /tasks/due?hours=abc reached get_due_tasks with hours 24 and was
\* answered 200 with a task of the collection.
C13_Witness ==
    /\ http.request # <<>>
    /\ http.request.rule = "/tasks/due"
    /\ "hours" \in DOMAIN http.request.args
    /\ http.request.args.hours = <<"a", "b", "c">>
    /\ req.op = "due"
    /\ req.hours = 24
    /\ http.response.status = 200
    /\ Len(http.response.body) = 1

\* C14: in every reachable state of the store, after any sequence of create,
\* update and delete operations with arbitrary payloads, every stored task
\* has priority in {low, medium, high} and status in {TODO, IN_PROGRESS,
\* COMPLETED}.
C14_Enumerations ==
    \A i \in 1..Len(store) :
        /\ store[i].priority \in {"low", "medium", "high"}
        /\ store[i].status \in {"TODO", "IN_PROGRESS", "COMPLETED"}

\* An update asking for a status outside the enumeration was refused on a
\* stored task.
C14_Witness ==
    /\ req.op = "update"
    /\ "status" \in DOMAIN req.data
    /\ req.data.status \notin {"TODO", "IN_PROGRESS", "COMPLETED"}
    /\ Stored(store, req.task_id) # {}
    /\ resp.status = 400

\* A task, stored or returned, has a tags field that is a sequence of strings.
HasTags(task) ==
    /\ "tags" \in DOMAIN task
    /\ \A k \in 1..Len(task.tags) : task.tags[k] \in STRING

\* C15: in every reachable state of the store, after any sequence of create,
\* update and delete operations with arbitrary payloads, every stored task
\* has a tags field that is a sequence of strings (never absent), and every
\* task returned by create, get, list, due and update carries such a field.
C15_Tags ==
    /\ \A i \in 1..Len(store) : HasTags(store[i])
    /\ req.op \in {"create", "get", "update"} /\ resp.status \in {200, 201} =>
          HasTags(resp.body)
    /\ req.op \in {"list", "due"} /\ resp.status = 200 =>
          \A k \in 1..Len(resp.body) : HasTags(resp.body[k])

\* A listing returned a task without tags of its own next to a tagged one.
C15_Witness ==
    /\ req.op = "list"
    /\ Len(resp.body) = 2
    /\ \E j, k \in 1..2 : resp.body[j].tags = <<>> /\ resp.body[k].tags # <<>>

\* C16 as stated: for every payload the routing layer can pass (null and a
\* JSON value that is not an object included) and every id, create_task,
\* update_task, get_task_by_id and delete_task return a (result, status)
\* pair whose status is one of 200, 201, 204, 400, 404, and raise nothing.
C16_NeverRaised ==
    req.op \in {"create", "update", "get", "delete"} =>
        /\ "raised" \notin DOMAIN resp
        /\ resp.status \in {200, 201, 204, 400, 404}

\* The payload asks for an empty title or an empty description.
AsksEmpty(data) ==
    \/ "title" \in DOMAIN data /\ data.title = ""
    \/ "description" \in DOMAIN data /\ data.description = ""

\* C17 as stated: create_task with title or description equal to the empty
\* string is rejected with 400 and nothing is persisted, no update sets
\* either to the empty string, and no stored task ever has an empty title or
\* description.
C17_NonEmpty ==
    [][/\ IsCall("create") /\ AsksEmpty(req'.data) =>
            resp'.status = 400 /\ store' = store
       /\ IsCall("update") /\ AsksEmpty(req'.data) => store' = store
       /\ \A i \in 1..Len(store') :
            store'[i].title # "" /\ store'[i].description # ""]_vars

\* C17 amended: title and description are required strings that may be
\* empty: create_task with an empty title or description in an otherwise
\* valid payload returns 201 and persists the task with the empty value, and
\* a valid update of a stored task that names an empty title or description
\* leaves the task with that empty value.
C17_EmptyAccepted ==
    [][/\ IsCall("create") /\ FullyValid(req'.data) /\ AsksEmpty(req'.data) =>
            /\ resp'.status = 201
            /\ Len(store') = Len(store) + 1
            /\ \A f \in {"title", "description"} :
                   /\ store'[Len(store')][f] = req'.data[f]
                   /\ resp'.body[f] = req'.data[f]
       /\ IsCall("update") /\ FieldsValid(req'.data) /\ AsksEmpty(req'.data)
            /\ Stored(store, req'.task_id) # {} =>
            /\ Stored(store', req'.task_id) # {}
            /\ \A doc \in Stored(store', req'.task_id) :
                   \A f \in {"title", "description"} \cap DOMAIN req'.data :
                       doc[f] = req'.data[f]]_vars

\* An update emptied the title of a task that had one.
C17_Witness ==
    /\ req.op = "update"
    /\ "title" \in DOMAIN req.data
    /\ req.data.title = ""
    /\ resp.status = 200
    /\ resp.body.title = ""
    /\ resp.body.description = "D"
    /\ \E doc \in Stored(store, req.task_id) : doc.title = ""

\* The fields present in a payload that violate their constraint.
Violating(data) ==
    {f \in {"priority"} \cap DOMAIN data : data[f] \notin {"low", "medium", "high"}}
    \cup {f \in {"status"} \cap DOMAIN data :
             data[f] \notin {"TODO", "IN_PROGRESS", "COMPLETED"}}
    \cup {f \in {"due_date"} \cap DOMAIN data : ~data[f].iso}
    \cup {f \in {"tags"} \cap DOMAIN data : ~(data[f].list /\ data[f].strs)}

\* C18: update_task has no partial success: when any field present in the
\* payload violates its constraint, it returns 400 with a field-error map
\* (naming each such field) and the stored record keeps every field, those
\* the same payload named validly and tags included.
C18_NoPartialUpdate ==
    [][IsCall("update") /\ Violating(req'.data) # {} =>
          /\ resp'.status = 400
          /\ Violating(req'.data) \subseteq DOMAIN resp'.body.error
          /\ \A f \in DOMAIN resp'.body.error : resp'.body.error[f] # <<>>
          /\ store' = store]_vars

\* An update naming a new title and an invalid due_date was refused on a
\* stored task that carries tags.
C18_Witness ==
    /\ req.op = "update"
    /\ resp.status = 400
    /\ Violating(req.data) = {"due_date"}
    /\ "title" \in DOMAIN req.data
    /\ "tags" \notin DOMAIN req.data
    /\ \E doc \in Stored(store, req.task_id) :
          doc.title # req.data.title /\ doc.tags # <<>>

\* C19: delete_task(id) removes at most the one record whose id equals the
\* argument: every other stored record is present and unchanged afterwards,
\* and when delete_task returns 404 the store is exactly as before.
C19_DeleteFrame ==
    [][IsCall("delete") =>
          LET others == SelectSeq(store, LAMBDA doc : ToString(doc._id) # req'.task_id)
          IN  /\ Len(store') >= Len(store) - 1
              /\ IF resp'.status = 404 THEN store' = store ELSE store' = others]_vars

\* Of two stored tasks one was deleted and the other is still there.
C19_Witness ==
    /\ req.op = "delete"
    /\ resp.status = 204
    /\ Len(store) = 1
    /\ ToString(store[1]._id) # req.task_id

\* This step is the return of the call of update_task that was pending at i.
Returns(i) ==
    /\ pending[i].op = "update"
    /\ pending' = SubSeq(pending, 1, i - 1) \o SubSeq(pending, i + 1, Len(pending))
    /\ req' = [op |-> "update", task_id |-> pending[i].task_id,
               data |-> pending[i].data, hours |-> 0, at |-> pending[i].at]

\* C20 as stated: under any interleaving of concurrent requests, if
\* update_task returns 404 then that call did not modify the store, and if it
\* returns 200 then the returned task shows the field values this call wrote.
C20_UpdateOutcome ==
    [][\A i \in 1..Len(pending) :
          Returns(i) =>
             /\ resp'.status = 404 => pending[i].modified_count = 0
             /\ resp'.status = 200 =>
                   \A f \in DOMAIN pending[i].update_data :
                       resp'.body[f] = IF f = "due_date"
                                       THEN FloorMs(pending[i].update_data[f])
                                       ELSE pending[i].update_data[f]]_vars

\* This step is the return of the call of create_task that was pending at i.
CreateReturns(i) ==
    /\ pending[i].op = "create"
    /\ pending' = SubSeq(pending, 1, i - 1) \o SubSeq(pending, i + 1, Len(pending))
    /\ req' = [op |-> "create", task_id |-> "", data |-> pending[i].data,
               hours |-> 0, at |-> pending[i].at]

\* C21 as stated: under any interleaving of concurrent requests, create_task
\* with a valid payload completes with 201 and a task carrying the inserted
\* fields, also when another request deletes the new record between the
\* insert and the read-back by inserted id.
C21_CreateCompletes ==
    [][\A i \in 1..Len(pending) :
          CreateReturns(i) =>
             /\ resp'.status = 201
             /\ resp'.body.id = ToString(pending[i].inserted_id)
             /\ \A f \in {"title", "description", "priority", "status"} :
                    resp'.body[f] = pending[i].data[f]]_vars

====
